---- MODULE Spec2Model ----
(***************************************************************************)
(* A model of the letschat Python client (src/letschat/__init__.py): the   *)
(* API facade's parameter marshalling, the transport (_make_call), the     *)
(* slug -> Room cache, the Room wrapper with its _last_seen cursor and the  *)
(* Account wrapper's memoised gravatar.  The Let's Chat server is the      *)
(* environment; its message listing is modelled as the docstring of        *)
(* API.get_messages describes it.                                          *)
(*                                                                         *)
(* Encodings.  A Python dict is a function from its keys.  An optional     *)
(* argument is a tuple: <<>> is None, <<v>> is the value v.  Message and   *)
(* room ids are positive integers in order of creation; the empty string   *)
(* '' used as "no cursor" is EmptyId, which is below every id exactly as   *)
(* '' is below every non-empty string.  bytes are strings, b'' is "".      *)
(*                                                                         *)
(* A value that a method binds to a local and reads several times is       *)
(* passed as a parameter to the operator that models the rest of the       *)
(* method (Seeded, UnreadReturn, Listed, ...).                             *)
(***************************************************************************)
EXTENDS Integers, Sequences, FiniteSets, TLC

VARIABLES
    srvRooms,     \* server: sequence of room records, in order of creation
    srvMsgs,      \* server: sequence of message records, in order of posting
    nextRoomId,   \* server: id the next created room gets
    _rooms,       \* API._rooms: slug -> Room wrapper
    last,         \* ghost: the last client operation, what it sent and returned
    returned,     \* ghost: union of the slugs every rooms refresh was given
    quiet,        \* ghost: consecutive unread() calls with nothing new
    call,         \* the last facade call of the marshalling specification
    _gravatar,    \* Account._gravatar of one Account instance
    avatar,       \* gravatar service: what a fetch of the URL answers now
    fetches,      \* ghost: requests issued to the gravatar service so far
    hits          \* ghost: the accesses of Account.gravatar so far

vars == <<srvRooms, srvMsgs, nextRoomId, _rooms, last, returned, quiet, call, _gravatar, avatar, fetches, hits>>

roomVars == <<srvRooms, srvMsgs, nextRoomId, _rooms, last, returned, quiet>>
accountVars == <<_gravatar, avatar, fetches, hits>>

-----------------------------------------------------------------------------
(* Bounds of the model. *)

MaxMsgs == 3
MaxRoomId == 2
ServerDefaultTake == 2
MaxSkip == 1
MaxFetches == 4
MaxQuiet == 2

(* MaxMsgs: messages ever posted.  MaxRoomId: rooms ever created.          *)
(* ServerDefaultTake: the server's page size when the request names no     *)
(* take (the client leaves take out at its default).  MaxSkip: the skip    *)
(* arguments tried are 0..MaxSkip.  MaxFetches: accesses of gravatar.      *)
(* MaxQuiet: where the count of quiet unread() calls stops.                *)

\* '' : the cursor of a room never posted in
EmptyId == 0

Slugs == {"a", "b"}
NewNames == {"", "m"}
Bytes == {"", "png", "jpg"}

None == <<>>
Some(v) == <<v>>

EmptyDict == [k \in {} |-> k]

\* params[k] = v
Put(params, k, v) == [x \in DOMAIN params \cup {k} |-> IF x = k THEN v ELSE params[x]]

\* if c: params[k] = v
PutIf(c, params, k, v) == IF c THEN Put(params, k, v) ELSE params

Min(a, b) == IF a < b THEN a ELSE b

Reverse(s) == [i \in 1..Len(s) |-> s[Len(s) + 1 - i]]

RECURSIVE SelectRoom(_, _)
\* the messages of one room, in the order of s
SelectRoom(s, room) ==
    IF s = <<>> THEN <<>>
    ELSE (IF Head(s).room = room THEN <<Head(s)>> ELSE <<>>) \o SelectRoom(Tail(s), room)

Ids(m) == [i \in 1..Len(m) |-> m[i].id]

-----------------------------------------------------------------------------
(* API: building the request parameters.  Each operator takes the call's   *)
(* arguments as a record a, one field per Python parameter.                *)

\* a slip: if take: as get_rooms has it, instead of if take != 500:
MessageFiltersTruthyTake(a) ==
    LET p0 == Put(EmptyDict, "room", a.room_id)
        p1 == PutIf(a.since_id # None, p0, "since_id", a.since_id[1])
        p2 == PutIf(a.from_ # None, p1, "from", a.from_[1])
        p3 == PutIf(a.to # None, p2, "to", a.to[1])
        p4 == PutIf(a.skip # 0, p3, "skip", a.skip)
        p5 == PutIf(a.take # 0, p4, "take", a.take)
    IN  PutIf(~a.reverse, p5, "reverse", a.reverse)

\* get_messages: params before the expand key
MessageFilters(a) ==
    LET p0 == Put(EmptyDict, "room", a.room_id)
        p1 == PutIf(a.since_id # None, p0, "since_id", a.since_id[1])
        p2 == PutIf(a.from_ # None, p1, "from", a.from_[1])
        p3 == PutIf(a.to # None, p2, "to", a.to[1])
        p4 == PutIf(a.skip # 0, p3, "skip", a.skip)
        p5 == PutIf(a.take # 500, p4, "take", a.take)
    IN  PutIf(~a.reverse, p5, "reverse", a.reverse)

\* if expands: expands += ','  and then  expands += token
Join(expands, token) == (IF expands # "" THEN expands \o "," ELSE expands) \o token

\* if c: the lines above
JoinIf(c, expands, token) == IF c THEN Join(expands, token) ELSE expands

\* a slip: the separator appended without testing expands
ExpandsAlwaysComma(a) == IF a.expand_room THEN (IF a.expand_owner THEN "owner" ELSE "") \o "," \o "room" ELSE (IF a.expand_owner THEN "owner" ELSE "")

\* get_messages: the expands string
Expands(a) == JoinIf(a.expand_room, IF a.expand_owner THEN "owner" ELSE "", "room")

GetMessagesParams(a) == PutIf(Expands(a) # "", MessageFilters(a), "expand", Expands(a))

\* the keyword defaults of get_messages
MessageDefaults == [since_id |-> None, from_ |-> None, to |-> None, skip |-> 0, take |-> 500, reverse |-> TRUE, expand_owner |-> FALSE, expand_room |-> FALSE]

\* get_messages(room_id, **kw): the defaults overridden by the keywords kw
MessageArgs(room_id, kw) ==
    [k \in DOMAIN MessageDefaults \cup {"room_id"} |->
        IF k = "room_id" THEN room_id
        ELSE IF k \in DOMAIN kw THEN kw[k] ELSE MessageDefaults[k]]

\* if room: single-room usage
SingleRoom(a) == a.room # None /\ a.room[1] # ""

GetRoomsPath(a) == IF SingleRoom(a) THEN <<"rooms", a.room[1]>> ELSE <<"rooms">>

GetRoomsParams(a) ==
    LET p1 == PutIf(a.skip # None /\ a.skip[1] # 0, EmptyDict, "skip", a.skip[1])
        p2 == PutIf(a.take # None /\ a.take[1] # 0, p1, "take", a.take[1])
    IN  IF SingleRoom(a) THEN EmptyDict ELSE p2

GetFilesParams(a) ==
    LET p0 == Put(EmptyDict, "room", a.room_id)
        p1 == PutIf(a.skip # 0, p0, "skip", a.skip)
    IN  PutIf(a.take # 500, p1, "take", a.take)

GetUsersParams(a) ==
    LET p1 == PutIf(a.skip # 0, EmptyDict, "skip", a.skip)
    IN  PutIf(a.take # 500, p1, "take", a.take)

\* a slip: if name: instead of if name is not None:
UpdateRoomParamsTruthy(a) ==
    LET p1 == PutIf(a.name # None /\ a.name[1] # "", EmptyDict, "name", a.name[1])
    IN  PutIf(a.description # None /\ a.description[1] # "", p1, "description", a.description[1])

UpdateRoomParams(a) ==
    LET p1 == PutIf(a.name # None, EmptyDict, "name", a.name[1])
    IN  PutIf(a.description # None, p1, "description", a.description[1])

-----------------------------------------------------------------------------
(* The server, as the client sees it.  A response is [ok, text, json]: ok  *)
(* is what raise_for_status() tests, text whether the body is non-empty.   *)

Request(method, path, params) == [method |-> method, path |-> path, params |-> params]

Json(v) == [ok |-> TRUE, text |-> TRUE, json |-> v]
NoContent == [ok |-> TRUE, text |-> FALSE, json |-> <<>>]
HttpError == [ok |-> FALSE, text |-> TRUE, json |-> <<>>]

HasSlug(rs, slug) == \E i \in 1..Len(rs) : rs[i].slug = slug
HasId(rs, id) == \E i \in 1..Len(rs) : rs[i].id = id
RoomIndex(slug) == CHOOSE i \in 1..Len(srvRooms) : srvRooms[i].slug = slug

Param(params, k, default) == IF k \in DOMAIN params THEN params[k] ELSE default

\* since_id: results with an id greater than (more recent than) the given id
Newer(msgs, since_id) == SelectSeq(msgs, LAMBDA m : m.id > since_id)

\* reverse: newest first (the default) or oldest first
Ordered(msgs, reverse) == IF reverse THEN Reverse(msgs) ELSE msgs

\* skip: the number of messages to skip; take: the number to return
Page(msgs, skip, take) == SubSeq(msgs, skip + 1, Min(Len(msgs), skip + take))

\* GET /messages
ListMessages(params) == Page(Ordered(Newer(SelectRoom(srvMsgs, params.room), Param(params, "since_id", EmptyId)), Param(params, "reverse", TRUE)), Param(params, "skip", 0), Param(params, "take", ServerDefaultTake))

NewMessage(room) == [id |-> Len(srvMsgs) + 1, room |-> room]

NewRoom(params) == [id |-> nextRoomId, slug |-> params.slug, name |-> params.name, description |-> params.description]

UpdatedRoom(r, params) == [k \in DOMAIN r |-> IF k \in DOMAIN params THEN params[k] ELSE r[k]]

\* the server after a request: its rooms, its messages, its answer
Same(resp) == [rooms |-> srvRooms, msgs |-> srvMsgs, nextRoomId |-> nextRoomId, resp |-> resp]
Posted(m) == [rooms |-> srvRooms, msgs |-> Append(srvMsgs, m), nextRoomId |-> nextRoomId, resp |-> Json(m)]
Created(r) == [rooms |-> Append(srvRooms, r), msgs |-> srvMsgs, nextRoomId |-> nextRoomId + 1, resp |-> Json(r)]
Updated(i, r) == [rooms |-> [srvRooms EXCEPT ![i] = r], msgs |-> srvMsgs, nextRoomId |-> nextRoomId, resp |-> Json(r)]
Removed(slug) == [rooms |-> SelectSeq(srvRooms, LAMBDA r : r.slug # slug), msgs |-> srvMsgs, nextRoomId |-> nextRoomId, resp |-> NoContent]

\* the server's answer to a request, and its state after it
Serve(req) ==
    CASE req.method = "get" /\ req.path = <<"rooms">> -> Same(Json(srvRooms))
      [] req.method = "get" /\ req.path = <<"messages">> -> Same(Json(ListMessages(req.params)))
      [] req.method = "post" /\ req.path = <<"messages">> ->
           IF HasId(srvRooms, req.params.room) THEN Posted(NewMessage(req.params.room)) ELSE Same(HttpError)
      [] req.method = "post" /\ req.path = <<"rooms">> ->
           IF HasSlug(srvRooms, req.params.slug) THEN Same(HttpError) ELSE Created(NewRoom(req.params))
      [] req.method = "put" /\ Len(req.path) = 2 ->
           IF HasSlug(srvRooms, req.path[2])
           THEN Updated(RoomIndex(req.path[2]), UpdatedRoom(srvRooms[RoomIndex(req.path[2])], req.params))
           ELSE Same(HttpError)
      [] req.method = "delete" /\ Len(req.path) = 2 ->
           IF HasSlug(srvRooms, req.path[2]) THEN Removed(req.path[2]) ELSE Same(HttpError)

-----------------------------------------------------------------------------
(* The transport. *)

\* a slip: an empty list answered as None, as if call.json(): would
MakeCallJsonTruthy(resp) ==
    IF ~resp.ok THEN [err |-> "HTTPError", val |-> None]
    ELSE IF resp.text /\ resp.json # <<>> THEN [err |-> "none", val |-> Some(resp.json)]
    ELSE [err |-> "none", val |-> None]

\* _make_call after the request: raise_for_status, then json or None
MakeCall(resp) ==
    IF ~resp.ok THEN [err |-> "HTTPError", val |-> None]
    ELSE IF resp.text THEN [err |-> "none", val |-> Some(resp.json)]
    ELSE [err |-> "none", val |-> None]

-----------------------------------------------------------------------------
(* Room. *)

\* a slip: the oldest message asked for instead of the newest
SeedArgsOldest(id) == MessageArgs(id, [take |-> 1, reverse |-> FALSE])

\* Room.__init__: the arguments of the call that seeds _last_seen
SeedArgs(id) == MessageArgs(id, [take |-> 1])

SeedRequest(id) == Request("get", <<"messages">>, GetMessagesParams(SeedArgs(id)))

\* Room.__init__ before the try.  born and delivered are ghosts: how many
\* messages the server held at construction, and the ids unread() has
\* returned since.
NewWrapper(room_dict) ==
    [id |-> room_dict.id, slug |-> room_dict.slug, _name |-> room_dict.name,
     _description |-> room_dict.description, _last_seen |-> EmptyId,
     born |-> Len(srvMsgs), delivered |-> <<>>]

\* Room.__init__, the try: r is what get_messages(self.id, take=1) gave
Seeded(room, req, r) ==
    IF r.err # "none" THEN [err |-> r.err, room |-> room, reqs |-> <<req>>]
    ELSE IF r.val = None THEN [err |-> "TypeError", room |-> room, reqs |-> <<req>>]
    ELSE IF r.val[1] = <<>> THEN [err |-> "none", room |-> room, reqs |-> <<req>>]
    ELSE [err |-> "none", room |-> [room EXCEPT !._last_seen = r.val[1][1].id], reqs |-> <<req>>]

\* Room.__init__ on a room record of the server
RoomInit(room_dict) == Seeded(NewWrapper(room_dict), SeedRequest(room_dict.id), MakeCall(Serve(SeedRequest(room_dict.id)).resp))

\* a slip: since_id not passed
UnreadArgsNoSince(w) == MessageArgs(w.id, [reverse |-> FALSE, expand_owner |-> TRUE, expand_room |-> TRUE])

\* a slip: reverse=False not passed, so the server answers newest first
UnreadArgsNewestFirst(w) == MessageArgs(w.id, [since_id |-> Some(w._last_seen), expand_owner |-> TRUE, expand_room |-> TRUE])

\* Room.unread: the arguments of its get_messages call
UnreadArgs(w) == MessageArgs(w.id, [since_id |-> Some(w._last_seen), reverse |-> FALSE, expand_owner |-> TRUE, expand_room |-> TRUE])

UnreadRequest(w) == Request("get", <<"messages">>, GetMessagesParams(UnreadArgs(w)))

\* a slip: m[0] instead of m[-1]
NextCursorFirst(w, m) == IF m # <<>> THEN m[1].id ELSE w._last_seen

\* Room.unread: _last_seen after the call returned the list m
NextCursor(w, m) == IF m # <<>> THEN m[Len(m)].id ELSE w._last_seen

\* Room.unread after get_messages gave r
UnreadReturn(w, req, r) ==
    IF r.err # "none" THEN [err |-> r.err, room |-> w, result |-> <<>>, reqs |-> <<req>>]
    ELSE IF r.val = None THEN [err |-> "TypeError", room |-> w, result |-> <<>>, reqs |-> <<req>>]
    ELSE [err |-> "none", result |-> r.val[1], reqs |-> <<req>>,
          room |-> [w EXCEPT !._last_seen = NextCursor(w, r.val[1]), !.delivered = w.delivered \o Ids(r.val[1])]]

\* Room.unread on the wrapper w
Unread(w) == UnreadReturn(w, UnreadRequest(w), MakeCall(Serve(UnreadRequest(w)).resp))

-----------------------------------------------------------------------------
(* API.rooms. *)

\* a slip: the cache keyed by the room's name
CacheRoomByName(cache, room_dict, w) == Put(cache, room_dict.name, w)

\* self._rooms[room_dict['slug']] = Room(self, **room_dict)
CacheRoom(cache, room_dict, w) == Put(cache, room_dict.slug, w)

RECURSIVE RefreshLoop(_, _, _)

\* the body of the loop once Room(self, **room_dict) gave c
Constructed(list, cache, reqs, c) ==
    IF c.err # "none" THEN [err |-> c.err, cache |-> cache, reqs |-> reqs \o c.reqs]
    ELSE RefreshLoop(Tail(list), CacheRoom(cache, Head(list), c.room), reqs \o c.reqs)

\* the for loop of API.rooms over the list the server returned
RefreshLoop(list, cache, reqs) ==
    IF list = <<>> THEN [err |-> "none", cache |-> cache, reqs |-> reqs]
    ELSE IF Head(list).slug \in DOMAIN cache THEN RefreshLoop(Tail(list), cache, reqs)
    ELSE Constructed(list, cache, reqs, RoomInit(Head(list)))

WithListed(x, listed) == [err |-> x.err, cache |-> x.cache, reqs |-> x.reqs, listed |-> listed]

\* self.get_rooms(): no room, no skip, no take
RoomsRequest == Request("get", GetRoomsPath([room |-> None, skip |-> None, take |-> None]), GetRoomsParams([room |-> None, skip |-> None, take |-> None]))

\* the rooms property after get_rooms() gave r
Listed(cache, req, r) ==
    IF r.err # "none" THEN [err |-> r.err, cache |-> cache, reqs |-> <<req>>, listed |-> {}]
    ELSE IF r.val = None THEN [err |-> "TypeError", cache |-> cache, reqs |-> <<req>>, listed |-> {}]
    ELSE WithListed(RefreshLoop(r.val[1], cache, <<req>>), {r.val[1][i].slug : i \in 1..Len(r.val[1])})

\* the rooms property
Refresh(cache) == Listed(cache, RoomsRequest, MakeCall(Serve(RoomsRequest).resp))

-----------------------------------------------------------------------------
(* The operations of the client, and the other users of the server. *)

RefreshOp(op, keys, r) == [op |-> op, slug |-> "", err |-> r.err, result |-> <<>>, before |-> Some(keys), reqs |-> r.reqs, listed |-> r.listed]

NoOp == [op |-> "none", slug |-> "", err |-> "none", result |-> <<>>, before |-> None, reqs |-> <<>>, listed |-> {}]

NoQuiet == [slug |-> "", n |-> 0]

\* ghost: the server holds no message of w's room newer than w's cursor
NothingNew(w) == \A i \in 1..Len(srvMsgs) : srvMsgs[i].room = w.id => srvMsgs[i].id <= w._last_seen

InitialServers ==
    {[rooms |-> <<>>, msgs |-> <<>>],
     [rooms |-> <<[id |-> 1, slug |-> "a", name |-> "n", description |-> "d"]>>, msgs |-> <<>>],
     [rooms |-> <<[id |-> 1, slug |-> "a", name |-> "n", description |-> "d"]>>, msgs |-> <<[id |-> 1, room |-> 1]>>]}

InitFrom(r) == _rooms = r.cache /\ last = RefreshOp("init", {}, r) /\ returned = r.listed

\* API.__init__ against a server some others may have used already
InitRooms ==
    /\ \E s \in InitialServers : srvRooms = s.rooms /\ srvMsgs = s.msgs /\ nextRoomId = Len(s.rooms) + 1
    /\ InitFrom(Refresh(EmptyDict))
    /\ quiet = NoQuiet

RoomsDone(r) == _rooms' = r.cache /\ last' = RefreshOp("rooms", DOMAIN _rooms, r) /\ returned' = returned \cup r.listed

\* an access of API.rooms
Rooms ==
    /\ RoomsDone(Refresh(_rooms))
    /\ quiet' = NoQuiet
    /\ UNCHANGED <<srvRooms, srvMsgs, nextRoomId>>

\* what a state-changing request leaves: s is the server's answer and state
Effect(op, slug, req, before, result, s) ==
    /\ srvRooms' = s.rooms
    /\ srvMsgs' = s.msgs
    /\ nextRoomId' = s.nextRoomId
    /\ last' = IF before = None THEN NoOp
               ELSE [op |-> op, slug |-> slug, err |-> MakeCall(s.resp).err, result |-> result, before |-> before, reqs |-> <<req>>, listed |-> {}]
    /\ quiet' = NoQuiet
    /\ UNCHANGED <<_rooms, returned>>

\* one state-changing request
Send(op, slug, req, before, result) == Effect(op, slug, req, before, result, Serve(req))

\* API.make_room
MakeRoom(name, slug, description) ==
    /\ nextRoomId <= MaxRoomId
    /\ Send("make_room", slug, Request("post", <<"rooms">>, [name |-> name, slug |-> slug, description |-> description]), None, <<>>)

\* API.remove_room
RemoveRoom(slug) == Send("remove_room", slug, Request("delete", <<"rooms", slug>>, EmptyDict), None, <<>>)

\* room.name = new_name
SetName(slug, new_name) ==
    /\ slug \in DOMAIN _rooms
    /\ Send("name", slug, Request("put", <<"rooms", _rooms[slug].slug>>, UpdateRoomParams([name |-> Some(new_name), description |-> None])), Some(_rooms[slug]), <<new_name>>)

\* room.description = new_description
SetDescription(slug, new_description) ==
    /\ slug \in DOMAIN _rooms
    /\ Send("description", slug, Request("put", <<"rooms", _rooms[slug].slug>>, UpdateRoomParams([name |-> None, description |-> Some(new_description)])), Some(_rooms[slug]), <<new_description>>)

\* room.post(message)
Post(slug) ==
    /\ slug \in DOMAIN _rooms
    /\ Len(srvMsgs) < MaxMsgs
    /\ Send("post", slug, Request("post", <<"messages">>, [text |-> "hi", room |-> _rooms[slug].id]), None, <<>>)

UnreadDone(slug, w, r) ==
    /\ _rooms' = [_rooms EXCEPT ![slug] = r.room]
    /\ last' = [op |-> "unread", slug |-> slug, err |-> r.err, result |-> Ids(r.result), before |-> Some(w), reqs |-> r.reqs, listed |-> {}]
    /\ quiet' = IF ~NothingNew(w) THEN NoQuiet
                ELSE IF quiet.slug = slug THEN [quiet EXCEPT !.n = Min(quiet.n + 1, MaxQuiet)]
                ELSE [slug |-> slug, n |-> 1]

\* room.unread()
RoomUnread(slug) ==
    /\ slug \in DOMAIN _rooms
    /\ UnreadDone(slug, _rooms[slug], Unread(_rooms[slug]))
    /\ UNCHANGED <<srvRooms, srvMsgs, nextRoomId, returned>>

\* another user posts in a room of the server
OtherPost(i) ==
    /\ i \in 1..Len(srvRooms)
    /\ Len(srvMsgs) < MaxMsgs
    /\ srvMsgs' = Append(srvMsgs, NewMessage(srvRooms[i].id))
    /\ quiet' = NoQuiet
    /\ last' = NoOp
    /\ UNCHANGED <<srvRooms, nextRoomId, _rooms, returned>>

NoCall == [fn |-> "none", args |-> EmptyDict, path |-> <<>>, params |-> EmptyDict]

NoHits == [n |-> 0, fetched |-> FALSE, late |-> 0, err |-> "none", ret |-> ""]

\* Account.__init__: self._gravatar = b''
Idle == call = NoCall /\ _gravatar = "" /\ avatar = "png" /\ fetches = 0 /\ hits = NoHits

Init == InitRooms /\ Idle

Next ==
    \/ Rooms /\ UNCHANGED <<call, accountVars>>
    \/ \E slug \in Slugs : MakeRoom("n", slug, "d") /\ UNCHANGED <<call, accountVars>>
    \/ \E slug \in Slugs : RemoveRoom(slug) /\ UNCHANGED <<call, accountVars>>
    \/ \E slug \in Slugs : Post(slug) /\ UNCHANGED <<call, accountVars>>
    \/ \E slug \in Slugs : RoomUnread(slug) /\ UNCHANGED <<call, accountVars>>
    \/ \E i \in 1..MaxRoomId : OtherPost(i) /\ UNCHANGED <<call, accountVars>>

Spec == Init /\ [][Next]_vars

NextSetters ==
    \/ Rooms /\ UNCHANGED <<call, accountVars>>
    \/ \E slug \in Slugs : MakeRoom("n", slug, "d") /\ UNCHANGED <<call, accountVars>>
    \/ \E slug \in Slugs : RemoveRoom(slug) /\ UNCHANGED <<call, accountVars>>
    \/ \E slug \in Slugs, v \in NewNames : SetName(slug, v) /\ UNCHANGED <<call, accountVars>>
    \/ \E slug \in Slugs, v \in NewNames : SetDescription(slug, v) /\ UNCHANGED <<call, accountVars>>

SpecSetters == Init /\ [][NextSetters]_vars

-----------------------------------------------------------------------------
(* Properties of the cursor and the cache, under Spec. *)

\* the ids of the messages of a room, oldest first
RoomIds(room) == Ids(SelectRoom(srvMsgs, room))

\* the id of the most recent message of a room, EmptyId when it has none
Newest(room) == IF RoomIds(room) = <<>> THEN EmptyId ELSE RoomIds(room)[Len(RoomIds(room))]

\* the ids of the messages posted in w's room after w was constructed
Expected(w) == SelectSeq(RoomIds(w.id), LAMBDA i : i > w.born)

IsPrefix(s, t) == Len(s) <= Len(t) /\ s = SubSeq(t, 1, Len(s))

Refreshed == last.op \in {"init", "rooms"}

\* the wrappers the last access of rooms constructed
Built == {s \in DOMAIN _rooms : s \notin last.before[1]}

\* C1: no step moves a wrapper's _last_seen backward, and the only step that
\* changes it is an unread() that returned messages, which sets it to the id
\* of the last message it returned.
C1_CursorNeverRewinds ==
    [][\A s \in DOMAIN _rooms :
          /\ s \in DOMAIN _rooms'
          /\ _rooms'[s]._last_seen >= _rooms[s]._last_seen
          /\ _rooms'[s]._last_seen # _rooms[s]._last_seen =>
                /\ last'.op = "unread" /\ last'.slug = s /\ last'.result # <<>>
                /\ _rooms'[s]._last_seen = last'.result[Len(last'.result)]]_vars

C1_Witness ==
    /\ last.op = "unread"
    /\ last.before[1]._last_seen # EmptyId
    /\ _rooms[last.slug]._last_seen > last.before[1]._last_seen

\* C2: after an unread() that returned a non-empty batch, _last_seen is the id
\* of the batch's last message, that message is the most recent of the batch,
\* and every message of the batch is newer than the cursor before the call.
C2_CursorIsLastOfBatch ==
    (last.op = "unread" /\ last.result # <<>>) =>
        /\ _rooms[last.slug]._last_seen = last.result[Len(last.result)]
        /\ \A i \in 1..Len(last.result) :
              /\ last.result[i] > last.before[1]._last_seen
              /\ last.result[i] <= last.result[Len(last.result)]

C2_Witness == last.op = "unread" /\ Len(last.result) >= 2 /\ last.before[1]._last_seen # EmptyId

C4_ConstructionSeedsCursor ==
    Refreshed =>
        /\ last.err = "none"
        /\ \A s \in Built : _rooms[s]._last_seen = Newest(_rooms[s].id)

C4_Witness ==
    /\ last.op = "rooms"
    /\ \E s \in Built : RoomIds(_rooms[s].id) = <<>> /\ _rooms[s]._last_seen = EmptyId
    /\ \E s \in Built : Len(RoomIds(_rooms[s].id)) >= 2

\* C5 as stated: after every access of rooms the cached slugs are exactly the
\* slugs of the records the server returned.
C5_CacheMatchesServer == Refreshed => DOMAIN _rooms = last.listed

\* C5 amended: after every access of rooms every record the server returned
\* has its slug cached, each key is the slug of its wrapper, and the cached
\* slugs are those any access so far was given: none is evicted.
C5_CacheCoversServer ==
    Refreshed =>
        /\ last.listed \subseteq DOMAIN _rooms
        /\ DOMAIN _rooms = returned
        /\ \A s \in DOMAIN _rooms : _rooms[s].slug = s

C5_Witness == last.op = "rooms" /\ last.listed # {} /\ DOMAIN _rooms # last.listed

\* C10: the ids unread() has returned on a wrapper are, in posting order and
\* without gap or repetition, the first of the messages posted in its room
\* since its construction: all of them up to the cursor, and after a call
\* that returned less than a full page, all of them.
C10_ExactlyOnce ==
    /\ \A s \in DOMAIN _rooms :
          /\ IsPrefix(_rooms[s].delivered, Expected(_rooms[s]))
          /\ _rooms[s].delivered = SelectSeq(Expected(_rooms[s]), LAMBDA i : i <= _rooms[s]._last_seen)
    /\ (last.op = "unread" /\ last.err = "none") =>
          \/ _rooms[last.slug].delivered = Expected(_rooms[last.slug])
          \/ Len(last.result) = ServerDefaultTake

C10_Witness ==
    \E s \in DOMAIN _rooms :
        /\ Expected(_rooms[s]) = RoomIds(_rooms[s].id)
        /\ Len(_rooms[s].delivered) > ServerDefaultTake
        /\ _rooms[s].delivered = Expected(_rooms[s])

-----------------------------------------------------------------------------
(* Properties of the setters, under SpecSetters. *)

Assigned == last.op \in {"name", "description"}

\* the server's record of the room named slug, when it has one
ServerRoom(slug) == srvRooms[CHOOSE i \in 1..Len(srvRooms) : srvRooms[i].slug = slug]

\* C9: an assignment to name or description sends one PUT rooms/<slug> whose
\* parameters are the assigned field alone, with the assigned value, and the
\* wrapper is left as it was: its name and description read as before, also
\* when the server has taken the new value.
C9_SetterSendsAndKeepsStale ==
    Assigned =>
        /\ last.reqs = <<Request("put", <<"rooms", last.before[1].slug>>, [k \in {last.op} |-> last.result[1]])>>
        /\ _rooms[last.slug] = last.before[1]
        /\ last.err = "none" => ServerRoom(last.before[1].slug)[last.op] = last.result[1]

C9_Witness ==
    /\ last.op = "name" /\ last.err = "none"
    /\ last.result[1] = ""
    /\ ServerRoom(last.slug).name # _rooms[last.slug]._name

-----------------------------------------------------------------------------
(* The facade's marshalling on its own: every call with arguments drawn    *)
(* from small sets, and the request it makes.                              *)

TakeInputs == {0, 1, 10, 500}
Dates == {None, Some("2015-02-02T01:43:19Z")}

MessageInputs ==
    [room_id : {1}, since_id : {None, Some(EmptyId), Some(1)}, from_ : Dates, to : Dates,
     skip : 0..MaxSkip, take : TakeInputs, reverse : BOOLEAN,
     expand_owner : BOOLEAN, expand_room : BOOLEAN]

FileInputs == [room_id : {1}, skip : 0..MaxSkip, take : TakeInputs]

UserInputs == [skip : 0..MaxSkip, take : TakeInputs]

RoomInputs ==
    [room : {None, Some(""), Some("a")},
     skip : {None} \cup {Some(i) : i \in 0..MaxSkip},
     take : {None} \cup {Some(t) : t \in TakeInputs}]

Called(fn, a, path, params) == call' = [fn |-> fn, args |-> a, path |-> path, params |-> params]

GetMessages(a) == Called("get_messages", a, <<"messages">>, GetMessagesParams(a))

GetFiles(a) == Called("get_files", a, <<"files">>, GetFilesParams(a))

GetUsers(a) == Called("get_users", a, <<"users">>, GetUsersParams(a))

GetRooms(a) == Called("get_rooms", a, GetRoomsPath(a), GetRoomsParams(a))

NextParams ==
    \/ \E a \in MessageInputs : GetMessages(a) /\ UNCHANGED <<roomVars, accountVars>>
    \/ \E a \in FileInputs : GetFiles(a) /\ UNCHANGED <<roomVars, accountVars>>
    \/ \E a \in UserInputs : GetUsers(a) /\ UNCHANGED <<roomVars, accountVars>>
    \/ \E a \in RoomInputs : GetRooms(a) /\ UNCHANGED <<roomVars, accountVars>>

SpecParams == Init /\ [][NextParams]_vars

\* the keyword defaults of each function's signature
Defaults(fn) ==
    CASE fn = "get_messages" -> MessageDefaults
      [] fn \in {"get_files", "get_users"} -> [skip |-> 0, take |-> 500]
      [] fn = "get_rooms" -> [room |-> None, skip |-> None, take |-> None]
      [] OTHER -> EmptyDict

\* the optional parameters that travel as request parameters: the argument,
\* its key in the request, and whether the argument is None or a value
Optional(fn) ==
    LET plain == {[arg |-> "skip", key |-> "skip", opt |-> FALSE], [arg |-> "take", key |-> "take", opt |-> FALSE]}
    IN  CASE fn = "get_messages" ->
               plain \cup {[arg |-> "reverse", key |-> "reverse", opt |-> FALSE],
                           [arg |-> "since_id", key |-> "since_id", opt |-> TRUE],
                           [arg |-> "from_", key |-> "from", opt |-> TRUE],
                           [arg |-> "to", key |-> "to", opt |-> TRUE]}
          [] fn \in {"get_files", "get_users"} -> plain
          [] fn = "get_rooms" -> {[arg |-> "skip", key |-> "skip", opt |-> TRUE], [arg |-> "take", key |-> "take", opt |-> TRUE]}
          [] OTHER -> {}

Sent(p) == p.key \in DOMAIN call.params

AtDefault(p) == call.args[p.arg] = Defaults(call.fn)[p.arg]

\* a parameter that is sent carries the argument
Carries(p) == Sent(p) => call.params[p.key] = IF p.opt THEN call.args[p.arg][1] ELSE call.args[p.arg]

\* C6 as stated: in all four functions a parameter's key is in the request
\* exactly when its argument differs from the default.
C6_SentIffNotDefault == \A p \in Optional(call.fn) : Sent(p) <=> ~AtDefault(p)

\* C6 amended: in get_messages, get_files and get_users a parameter's key is
\* in the request exactly when its argument differs from the default (skip 0,
\* take 500, reverse true, since_id/from/to None), and it carries the
\* argument.  In get_rooms, whose defaults are None, skip and take are sent
\* exactly when no room is named and the argument is neither None nor 0.
C6_SentIffNotDefaultOrFalsy ==
    \A p \in Optional(call.fn) :
        /\ Carries(p)
        /\ IF call.fn = "get_rooms"
           THEN Sent(p) <=> /\ ~(call.args.room # None /\ call.args.room[1] # "")
                            /\ ~AtDefault(p)
                            /\ call.args[p.arg][1] # 0
           ELSE Sent(p) <=> ~AtDefault(p)

C6_Witness ==
    /\ call.fn = "get_messages"
    /\ call.args.take = 10 /\ call.args.skip = 0 /\ call.args.reverse /\ call.args.since_id = None
    /\ DOMAIN call.params = {"room", "take"}
    /\ call.params.take = 10

\* C7: get_messages sends expand = "owner" for the owner alone, "room" for the
\* room alone, "owner,room" for both, and no expand key for neither.
C7_Expand ==
    call.fn = "get_messages" =>
        CASE call.args.expand_owner /\ call.args.expand_room ->
               "expand" \in DOMAIN call.params /\ call.params.expand = "owner,room"
          [] call.args.expand_owner /\ ~call.args.expand_room ->
               "expand" \in DOMAIN call.params /\ call.params.expand = "owner"
          [] ~call.args.expand_owner /\ call.args.expand_room ->
               "expand" \in DOMAIN call.params /\ call.params.expand = "room"
          [] OTHER -> "expand" \notin DOMAIN call.params

C7_Witness ==
    /\ call.fn = "get_messages"
    /\ call.args.expand_owner /\ call.args.expand_room
    /\ call.params.expand = "owner,room"

-----------------------------------------------------------------------------
(* Account.gravatar, and the gravatar service. *)

\* the gravatar property.  ok: whether raise_for_status() passes.  Of hits,
\* fetched says that some fetch has succeeded, late counts the requests
\* issued after that, err and ret are what this access raised or returned.
Gravatar(ok) ==
    /\ hits.n < MaxFetches
    /\ IF _gravatar = ""
       THEN /\ fetches' = fetches + 1
            /\ _gravatar' = IF ok THEN avatar ELSE _gravatar
            /\ hits' = [n |-> hits.n + 1,
                        fetched |-> hits.fetched \/ ok,
                        late |-> IF hits.fetched THEN hits.late + 1 ELSE hits.late,
                        err |-> IF ok THEN "none" ELSE "HTTPError",
                        ret |-> IF ok THEN avatar ELSE ""]
       ELSE /\ hits' = [hits EXCEPT !.n = hits.n + 1, !.err = "none", !.ret = _gravatar]
            /\ UNCHANGED <<fetches, _gravatar>>
    /\ UNCHANGED avatar

\* the image behind the URL changes
AvatarChanges(b) ==
    /\ b # avatar
    /\ avatar' = b
    /\ UNCHANGED <<_gravatar, fetches, hits>>

NextAccount ==
    \/ \E ok \in BOOLEAN : Gravatar(ok) /\ UNCHANGED <<roomVars, call>>
    \/ \E b \in Bytes : AvatarChanges(b) /\ UNCHANGED <<roomVars, call>>

SpecAccount == Init /\ [][NextAccount]_vars

\* C8: once a fetch of the gravatar has succeeded, whatever bytes it
\* returned, no later access issues another request.
C8_NoFetchAfterSuccess == hits.late = 0

====
